---- MODULE Spec2Model ----
(***************************************************************************)
(* Queue (lib/src/port/adapter/messaging/rabbitmq/Queue.js): the topology  *)
(* construction recipes of a RabbitMQ queue.                                *)
(*                                                                          *)
(* One construction call is one promise executor.  An action of this model  *)
(* is one completion event of the transport (build, assertQueue, bindQueue) *)
(* together with every promise reaction (microtask) that the event          *)
(* triggers: no other transport event can run between them.                 *)
(***************************************************************************)
EXTENDS Naturals, Sequences, FiniteSets

(* ------------------------------ bounds --------------------------------- *)
\* number of construction calls, which may be in flight together
NumCalls == 1
\* longest routingKeys array a caller passes
MaxKeys == 2

\* most calls of consume, ack, nack, basicQos and close on the queues and
\* deliveries pushed to them, all together
MaxOps == 4

Calls == 1 .. NumCalls

(* ------------------------------ inputs --------------------------------- *)
\* the value null of a name argument
Null == "<null>"
\* name arguments a caller passes: null, the empty string, a proper name
NameArgs == {Null, "", "orders"}
\* routing keys a caller passes
RoutingKeys == {"", "rk"}
KeyArgs == UNION {[1 .. n -> RoutingKeys] : n \in 0 .. MaxKeys}
\* (isDurable, isExclusive, isAutoDeleted) a caller passes: each flag set and
\* cleared, and every two flags differing in one of the triples
FlagArgs == {<<TRUE, FALSE, FALSE>>, <<TRUE, TRUE, FALSE>>,
             <<FALSE, TRUE, TRUE>>, <<FALSE, FALSE, TRUE>>}
\* exchange.name() of the Exchange handed to the exchange based recipes
ExchangeName == "ex"
\* the error value a failing transport operation rejects with
TransportError == <<"e">>

ConnectionRecipes ==
    {"customInstanceUsingConnectionSetting", "durableInstance",
     "durableExclusiveInstance", "durableNonExclusiveNotAutoDeletedInstance"}
ExchangeRecipes ==
    {"customInstanceUsingExchange", "individualExchangeSubscriberInstance",
     "exchangeTemporarySubscriberInstance", "exchangeNamedSubscriberInstance",
     "exchangeTemporaryDirectOrTopicSubscriberInstance"}
Recipes == ConnectionRecipes \cup ExchangeRecipes

\* recipes with a name parameter
HasNameParam(recipe) ==
    recipe \notin {"exchangeTemporarySubscriberInstance",
                   "exchangeTemporaryDirectOrTopicSubscriberInstance"}
\* recipes with a routingKeys parameter
HasKeysParam(recipe) ==
    recipe \in {"customInstanceUsingExchange",
                "individualExchangeSubscriberInstance",
                "exchangeTemporaryDirectOrTopicSubscriberInstance"}
\* recipes with the isDurable, isExclusive, isAutoDeleted parameters
HasFlagParams(recipe) ==
    recipe \in {"customInstanceUsingConnectionSetting",
                "customInstanceUsingExchange"}

(* --------------------------- the recipes ------------------------------- *)
\* name == null || name == ""
NameMissing(name) == name = Null \/ name = ""

\* the recipes that start with `if (name == null || name == "") reject(...)'
ValidatesName(recipe) ==
    recipe \in {"customInstanceUsingConnectionSetting",
                "customInstanceUsingExchange", "durableInstance",
                "durableExclusiveInstance",
                "durableNonExclusiveNotAutoDeletedInstance",
                "individualExchangeSubscriberInstance"}

\* CtorName that drops the name
CtorNameDropped(recipe, name) == ""

\* the name given to `new this(..., name)'
CtorName(recipe, name) == IF HasNameParam(recipe) THEN name ELSE ""

\* CtorMode with the exchange passed in the place of the connection setting
CtorModeSwapped(recipe) ==
    IF recipe \in ConnectionRecipes THEN "brokerChannel" ELSE "connectionSetting"

\* CtorMode that takes the connection branch for every recipe
CtorModeOwning(recipe) == "connectionSetting"

\* Queue constructor: super(connectionSetting, name) when a connection
\* setting is given, super(null, name, brokerChannel) otherwise
CtorMode(recipe) ==
    IF recipe \in ConnectionRecipes THEN "connectionSetting" ELSE "brokerChannel"

\* AssertionFlags with the exclusive recipe asserting like durableInstance
AssertionFlagsCopied(recipe, flags) ==
    CASE HasFlagParams(recipe) -> flags
      [] recipe \in {"exchangeTemporarySubscriberInstance",
                     "exchangeTemporaryDirectOrTopicSubscriberInstance"}
           -> <<FALSE, TRUE, TRUE>>
      [] OTHER -> <<TRUE, FALSE, FALSE>>

\* the arguments of constructQueueAssertion(isDurable, isExclusive, isAutoDeleted)
AssertionFlags(recipe, flags) ==
    CASE HasFlagParams(recipe) -> flags
      [] recipe \in {"durableInstance",
                     "durableNonExclusiveNotAutoDeletedInstance",
                     "individualExchangeSubscriberInstance",
                     "exchangeNamedSubscriberInstance"} -> <<TRUE, FALSE, FALSE>>
      [] recipe = "durableExclusiveInstance" -> <<TRUE, TRUE, FALSE>>
      [] OTHER -> <<FALSE, TRUE, TRUE>>

\* BindKeys with the fan-out recipes binding nothing
BindKeysNoFanout(recipe, keys) == IF HasKeysParam(recipe) THEN keys ELSE <<>>

\* the routing keys the then-callback of the assertion binds, in order
BindKeys(recipe, keys) ==
    CASE HasKeysParam(recipe) -> keys
      [] recipe \in {"exchangeTemporarySubscriberInstance",
                     "exchangeNamedSubscriberInstance"} -> <<"">>
      [] OTHER -> <<>>

\* the Constant the catch of constructQueueAssertion(...) prefixes
AssertCatchTag(recipe) ==
    IF recipe \in {"durableInstance", "durableExclusiveInstance",
                   "durableNonExclusiveNotAutoDeletedInstance"}
    THEN "FAILED_ASSERT_QUEUE"
    ELSE "FAILED_BINDING_QUEUE_AND_EXCHANGE"

(* ------------------------ transport operations ------------------------- *)
NoFlags == <<FALSE, FALSE, FALSE>>
\* queue.build()
BuildOp == [op |-> "build", queue |-> "", exchange |-> "", key |-> "",
            flags |-> NoFlags]
\* channel().assertQueue(name, {durable, exclusive, autoDelete})
AssertQueueOp(name, flags) ==
    [op |-> "assertQueue", queue |-> name, exchange |-> "", key |-> "",
     flags |-> flags]
\* BindQueueOp with the name the queue was constructed with, the empty one
\* of the anonymous recipes, which a channel reads as its last declared queue
BindQueueOpLastDeclared(name, exchange, key) ==
    [op |-> "bindQueue", queue |-> "", exchange |-> exchange, key |-> key,
     flags |-> NoFlags]

\* BindQueueOp with the queue and the exchange exchanged
BindQueueOpSwapped(name, exchange, key) ==
    [op |-> "bindQueue", queue |-> exchange, exchange |-> name, key |-> key,
     flags |-> NoFlags]

\* channel().bindQueue(queue.name(), exchange.name(), routingKey)
BindQueueOp(name, exchange, key) ==
    [op |-> "bindQueue", queue |-> name, exchange |-> exchange, key |-> key,
     flags |-> NoFlags]

(* ------------------------------ state ---------------------------------- *)
VARIABLES
    calls,      \* calls[c]: the construction call c, its promise and its queue
    queues,     \* broker: the declared queues, [name, flags]
    bindings,   \* broker: the bindings, <<queue, exchange, routing key>>
    generated,  \* broker: how many names it has generated
    channels,   \* channels[h]: the channel handle h and its connection
    cons        \* cons[c]: what happened on the queue of call c since

vars == <<calls, queues, bindings, generated, channels, cons>>
\* the state of consumption
consVars == <<channels, cons>>

IdleCall ==
    [stage |-> "idle", recipe |-> "", argName |-> "", argKeys |-> <<>>,
     argFlags |-> NoFlags, ctor |-> "", outcome |-> "none", diag |-> <<>>,
     name |-> "", durable |-> FALSE, buildRes |-> "none",
     assertRes |-> "none", reply |-> "", binds |-> <<>>, issued |-> <<>>]

\* the channel handle of the Exchange, shared by the queues built from it;
\* the channel that the build() of call c opens has the handle c
ExchangeChannel == 0

\* a channel handle and its connection, both open, before any use
FreshChannel ==
    [open |-> TRUE, connectionOpen |-> TRUE, prefetch |-> 0, consumers |-> {},
     failed |-> {}, pushed |-> <<>>, unacked |-> {},
     consumeCalls |-> <<>>, ackCalls |-> <<>>, prefetchCalls |-> <<>>,
     closeCalls |-> <<>>]

\* a queue nothing was called on
NoConsumption ==
    [consumes |-> <<>>, listener |-> <<>>, events |-> <<>>, escaped |-> <<>>,
     acks |-> <<>>, qos |-> <<>>, closes |-> 0]

Init ==
    /\ calls = [c \in Calls |-> IdleCall]
    /\ queues = {}
    /\ bindings = {}
    /\ generated = 0
    /\ channels = [h \in {ExchangeChannel} \cup Calls |-> FreshChannel]
    /\ cons = [c \in Calls |-> NoConsumption]

(* ----------------------- the returned promise -------------------------- *)
\* resolve(queue): settles a pending promise, no effect on a settled one
Resolve(q) ==
    IF q.outcome = "pending" THEN [q EXCEPT !.outcome = "resolved"] ELSE q

\* reject(message): settles a pending promise, no effect on a settled one
Reject(q, message) ==
    IF q.outcome = "pending"
    THEN [q EXCEPT !.outcome = "rejected", !.diag = message]
    ELSE q

\* String(new Error(message))
ErrorString(message) == <<"Error: ">> \o message


(* ----------------------------- the broker ------------------------------ *)
\* the names the broker generates for queues declared without a name
GeneratedNames == <<"amq.gen-1", "amq.gen-2", "amq.gen-3", "amq.gen-4">>

\* reply.queue of a successful assertQueue(name, ...): the declared name, or
\* a generated one when no name was sent (amqplib sends null as "")
ReplyQueue(name, n) == IF NameMissing(name) THEN GeneratedNames[n + 1] ELSE name

\* the broker refuses to redeclare a queue with other properties
Redeclarable(name, flags) ==
    \A d \in queues : d.name = name => d.flags = flags

(* --------------------- steps of a construction call -------------------- *)
\* the synchronous part of the executor: validate, new this(...), build()
Executor(recipe, name, keys, flags) ==
    LET p == [IdleCall EXCEPT !.recipe = recipe, !.argName = name,
                              !.argKeys = keys, !.argFlags = flags,
                              !.outcome = "pending"]
    IN  IF ValidatesName(recipe) /\ NameMissing(name)
        THEN [Reject(p, <<"INDIVIDUAL_SUBSCRIBER_MUST_HAS_NAME">>)
                EXCEPT !.stage = "done"]
        ELSE [p EXCEPT !.stage = "building", !.ctor = CtorMode(recipe),
                       !.name = CtorName(recipe, name),
                       !.buildRes = "pending", !.issued = <<BuildOp>>]

\* after `await queue.build()': constructQueueAssertion up to its await
\* (setDurable, then channel().assertQueue(this.name(), {...}))
ConstructQueueAssertion(q) ==
    LET flags == AssertionFlags(q.recipe, q.argFlags)
    IN  [q EXCEPT !.stage = "asserting", !.buildRes = "ok",
                  !.durable = flags[1], !.assertRes = "pending",
                  !.issued = Append(@, AssertQueueOp(q.name, flags))]

\* BuildCatch that reports the error and leaves the promise alone
BuildCatchLogOnly(q) == [q EXCEPT !.stage = "done", !.buildRes = "failed"]

\* catch (e) of `await queue.build()'
BuildCatch(q) ==
    [Reject(q, <<"QUEUE_BUILD_THROWS_ERROR">> \o TransportError)
       EXCEPT !.stage = "done", !.buildRes = "failed"]

\* SetName that keeps the requested name
SetNameKept(q, replyQueue) ==
    [q EXCEPT !.assertRes = "ok", !.reply = replyQueue]

\* this.setName(queueReply.queue)
SetName(q, replyQueue) ==
    [q EXCEPT !.assertRes = "ok", !.reply = replyQueue, !.name = replyQueue]

\* Fulfilled as soon as one bind is (Promise.race in place of Promise.all)
FulfilledByAny(binds) == \E i \in DOMAIN binds : binds[i] = "ok"

\* Promise.all(...) and bindQueue(...).then: fulfilled when every bind is
Fulfilled(binds) == \A i \in DOMAIN binds : binds[i] = "ok"

Completed(binds) == \A i \in DOMAIN binds : binds[i] # "pending"

\* the then-callback of constructQueueAssertion: resolve(queue) in the
\* connection based recipes, the bindQueue calls in the exchange based ones
AssertionThen(q) ==
    IF q.recipe \in ConnectionRecipes
    THEN [Resolve(q) EXCEPT !.stage = "done"]
    ELSE LET keys == BindKeys(q.recipe, q.argKeys)
             bound == [q EXCEPT
                 !.binds = [i \in DOMAIN keys |-> "pending"],
                 !.issued = @ \o [i \in DOMAIN keys |->
                                    BindQueueOp(q.name, ExchangeName, keys[i])]]
         IN  IF keys = <<>>
             THEN [Resolve(bound) EXCEPT !.stage = "done"]
             ELSE [bound EXCEPT !.stage = "binding"]

\* AssertionCatch that sends the declaration once more before giving up
AssertionCatchRetry(q) ==
    IF Len(SelectSeq(q.issued, LAMBDA o : o.op = "assertQueue")) < 2
    THEN [q EXCEPT !.issued = Append(@, q.issued[Len(q.issued)])]
    ELSE [Reject(q, <<"FAILED_ASSERT_QUEUE">> \o TransportError)
            EXCEPT !.stage = "done", !.assertRes = "failed"]

\* constructQueueAssertion throws new Error(FAILED_ASSERT_QUEUE + e) and the
\* recipe's catch rejects with its Constant followed by that error
AssertionCatch(q) ==
    [Reject(q, <<AssertCatchTag(q.recipe)>>
                 \o ErrorString(<<"FAILED_ASSERT_QUEUE">> \o TransportError))
       EXCEPT !.stage = "done", !.assertRes = "failed"]

\* BindThen with a then(() => resolve(queue)) on each bindQueue
BindThenEach(q, i) ==
    LET b == [q EXCEPT !.binds[i] = "ok"]
    IN  [Resolve(b) EXCEPT !.stage = IF Completed(b.binds) THEN "done"
                                                            ELSE "binding"]

\* bindQueue number i is fulfilled: then(() => resolve(queue)) once all are
BindThen(q, i) ==
    LET b == [q EXCEPT !.binds[i] = "ok"]
        r == IF Fulfilled(b.binds) THEN Resolve(b) ELSE b
    IN  [r EXCEPT !.stage = IF Completed(b.binds) THEN "done" ELSE "binding"]

\* BindCatch without the reject
BindCatchSwallowed(q, i) ==
    LET b == [q EXCEPT !.binds[i] = "failed"]
    IN  [b EXCEPT !.stage = IF Completed(b.binds) THEN "done" ELSE "binding"]

\* BindCatch that also closes the channel of the half bound queue
BindCatchClosing(q, i) ==
    LET b == [q EXCEPT !.binds[i] = "failed",
                       !.issued = Append(@, [BuildOp EXCEPT !.op = "close"])]
        r == Reject(b, <<"FAILED_BINDING_QUEUE_AND_EXCHANGE">> \o TransportError)
    IN  [r EXCEPT !.stage = IF Completed(b.binds) THEN "done" ELSE "binding"]

\* bindQueue number i is rejected: catch(e => reject(FAILED_BINDING... + e))
BindCatch(q, i) ==
    LET b == [q EXCEPT !.binds[i] = "failed"]
        r == Reject(b, <<"FAILED_BINDING_QUEUE_AND_EXCHANGE">> \o TransportError)
    IN  [r EXCEPT !.stage = IF Completed(b.binds) THEN "done" ELSE "binding"]

\* the bindQueue operation that bind number i of a call issued
BindOpOf(q, i) == q.issued[2 + i]

(* ------------------------------ actions -------------------------------- *)
\* the application calls a recipe; calls are numbered in the order they start
Call(c) ==
    /\ calls[c].stage = "idle"
    /\ \A b \in DOMAIN calls : b < c => calls[b].stage # "idle"
    /\ \E recipe \in Recipes :
       \E name \in IF HasNameParam(recipe) THEN NameArgs ELSE {""} :
       \E keys \in IF HasKeysParam(recipe) THEN KeyArgs ELSE {<<>>} :
       \E flags \in IF HasFlagParams(recipe) THEN FlagArgs ELSE {NoFlags} :
          calls' = [calls EXCEPT ![c] = Executor(recipe, name, keys, flags)]
    /\ UNCHANGED <<queues, bindings, generated, consVars>>

\* queue.build() is fulfilled
BuildOk(c) ==
    /\ calls[c].buildRes = "pending"
    /\ calls' = [calls EXCEPT ![c] = ConstructQueueAssertion(@)]
    /\ UNCHANGED <<queues, bindings, generated, consVars>>

\* queue.build() is rejected
BuildFail(c) ==
    /\ calls[c].buildRes = "pending"
    /\ calls' = [calls EXCEPT ![c] = BuildCatch(@)]
    /\ UNCHANGED <<queues, bindings, generated, consVars>>

\* the broker declares the queue and replies
AssertOk(c) ==
    LET q == calls[c]
        flags == AssertionFlags(q.recipe, q.argFlags)
        replyQueue == ReplyQueue(q.name, generated)
    IN  /\ q.assertRes = "pending"
        /\ NameMissing(q.name) => generated < Len(GeneratedNames)
        /\ Redeclarable(replyQueue, flags)
        /\ queues' = queues \cup {[name |-> replyQueue, flags |-> flags]}
        /\ generated' = IF NameMissing(q.name) THEN generated + 1 ELSE generated
        /\ calls' = [calls EXCEPT ![c] = AssertionThen(SetName(q, replyQueue))]
        /\ UNCHANGED <<bindings, consVars>>

\* the broker refuses the declaration, or the channel fails
AssertFail(c) ==
    /\ calls[c].assertRes = "pending"
    /\ calls' = [calls EXCEPT ![c] = AssertionCatch(@)]
    /\ UNCHANGED <<queues, bindings, generated, consVars>>

\* the broker binds the queue
BindOk(c, i) ==
    LET q == calls[c]
        o == BindOpOf(q, i)
    IN  /\ i \in DOMAIN q.binds
        /\ q.binds[i] = "pending"
        /\ bindings' = bindings \cup {<<o.queue, o.exchange, o.key>>}
        /\ calls' = [calls EXCEPT ![c] = BindThen(q, i)]
        /\ UNCHANGED <<queues, generated, consVars>>

\* the broker refuses the binding, or the channel fails
BindFail(c, i) ==
    /\ i \in DOMAIN calls[c].binds
    /\ calls[c].binds[i] = "pending"
    /\ calls' = [calls EXCEPT ![c] = BindCatch(@, i)]
    /\ UNCHANGED <<queues, bindings, generated, consVars>>

Next ==
    \E c \in DOMAIN calls :
        \/ Call(c)
        \/ BuildOk(c)
        \/ BuildFail(c)
        \/ AssertOk(c)
        \/ AssertFail(c)
        \/ \E i \in 1 .. MaxKeys : BindOk(c, i)
        \/ \E i \in 1 .. MaxKeys : BindFail(c, i)

Spec == Init /\ [][Next]_vars

(* ------------------- consumption and acknowledgment -------------------- *)
\* arguments of consume(messageListener, ack, options)
Listeners == {"listener"}
AckCallbacks == {"ackCallback"}
ConsumeOptions == {"options"}
\* arguments of basicQos(count)
QosArgs == {1, 2}
\* what a method of the listener does when called
Behaviours == {"returns", "throws"}
\* what handleMessage does when called: it returns, it throws, or it returns
\* a promise that is rejected later
HandlerBehaviours == Behaviours \cup {"rejectsLater"}

\* BrokerChannel.channel(): the handle a queue works on, the one its build()
\* opened on its own connection or the one of the exchange it reuses
ChannelOf(c) ==
    IF calls[c].ctor = "connectionSetting" THEN c ELSE ExchangeChannel

\* a call of a method of the channel handle
ChannelCall(op) ==
    [op |-> op, by |-> 0, queue |-> "", callback |-> 0, options |-> "",
     msg |-> 0, allUpTo |-> "undefined", requeue |-> FALSE, count |-> 0]

\* this.channel().consume(this.name(), (msg) => {...}, options)
ConsumeCall(name, k, options) ==
    [ChannelCall("consume") EXCEPT !.queue = name, !.callback = k,
                                   !.options = options]

\* AckCall acknowledging everything up to the message
AckCallAllUpTo(message) ==
    [ChannelCall("ack") EXCEPT !.msg = message, !.allUpTo = "true"]

\* this.channel().ack(message)
AckCall(message) == [ChannelCall("ack") EXCEPT !.msg = message]

\* NackCall that always asks for a requeue
NackCallRequeued(message, requeue) ==
    [ChannelCall("nack") EXCEPT !.msg = message, !.allUpTo = "false",
                                !.requeue = TRUE]

\* this.channel().nack(message, false, reqeue)
NackCall(message, requeue) ==
    [ChannelCall("nack") EXCEPT !.msg = message, !.allUpTo = "false",
                                !.requeue = requeue]

\* PrefetchCall that drops the count
PrefetchCallUnbounded(count) == ChannelCall("prefetch")

\* this.channel().prefetch(count)
PrefetchCall(count) == [ChannelCall("prefetch") EXCEPT !.count = count]

\* amqplib: multiple = !!allUpTo
Multiple(allUpTo) == allUpTo = "true"

\* what the channel handle does with a call: it records it and, while it
\* is open, settles the deliveries of an ack or nack or sets the prefetch
ChannelDo(ch, o) ==
    LET logged ==
          CASE o.op = "consume" -> [ch EXCEPT !.consumeCalls = Append(@, o)]
            [] o.op \in {"ack", "nack"} -> [ch EXCEPT !.ackCalls = Append(@, o)]
            [] o.op = "prefetch" -> [ch EXCEPT !.prefetchCalls = Append(@, o)]
            [] OTHER -> [ch EXCEPT !.closeCalls = Append(@, o)]
    IN  CASE ~ch.open -> logged
          [] o.op \in {"ack", "nack"} ->
               [logged EXCEPT !.unacked =
                   IF Multiple(o.allUpTo) THEN {t \in @ : t > o.msg}
                                          ELSE @ \ {o.msg}]
          [] o.op = "prefetch" -> [logged EXCEPT !.prefetch = o.count]
          [] OTHER -> logged

\* the error a method of the listener throws on a message
Thrown(fn, msg) == [by |-> fn, msg |-> msg]

\* messageListener.setCurrentMessage(msg)
SetCurrentMessage(listener, msg) ==
    [fn |-> "setCurrentMessage", listener |-> listener, msg |-> msg,
     ack |-> "", result |-> "returns"]

\* messageListener.handleMessage(msg, ack)
HandleMessage(listener, msg, ack) ==
    [fn |-> "handleMessage", listener |-> listener, msg |-> msg, ack |-> ack,
     result |-> "returns"]

\* HandleCatch that emits the event and throws the error again
HandleCatchRethrow(r, e) ==
    [r EXCEPT !.events =
        Append(@, [name |-> "MESSAGE_CONSUMER_ERROR_EVENT_NAME", error |-> e]),
              !.escaped = Append(@, e)]

\* HandleCatch that swallows the error
HandleCatchSilent(r, e) == r

\* catch (e) { this.emit(MESSAGE_CONSUMER_ERROR_EVENT_NAME, e) }
HandleCatch(r, e) ==
    [r EXCEPT !.events =
        Append(@, [name |-> "MESSAGE_CONSUMER_ERROR_EVENT_NAME", error |-> e])]

\* OnMessage that hands the message to handleMessage first
OnMessageHandleFirst(r, k, msg, scm, hm) ==
    LET cs == r.consumes[k]
        handled == [r EXCEPT !.listener =
                       Append(@, [HandleMessage(cs.listener, msg, cs.ack)
                                     EXCEPT !.result = hm])]
        set == [handled EXCEPT !.listener =
                   Append(@, [SetCurrentMessage(cs.listener, msg)
                                 EXCEPT !.result = scm])]
    IN  CASE hm = "throws" -> HandleCatch(handled, Thrown("handleMessage", msg))
          [] scm = "throws" ->
               [set EXCEPT !.escaped =
                   Append(@, Thrown("setCurrentMessage", msg))]
          [] OTHER -> set

\* the per-delivery callback of consume call k, run on the message msg;
\* scm and hm say what setCurrentMessage and handleMessage do
OnMessage(r, k, msg, scm, hm) ==
    LET cs == r.consumes[k]
        set == [r EXCEPT !.listener =
                   Append(@, [SetCurrentMessage(cs.listener, msg)
                                 EXCEPT !.result = scm])]
        handled == [set EXCEPT !.listener =
                       Append(@, [HandleMessage(cs.listener, msg, cs.ack)
                                     EXCEPT !.result = hm])]
    IN  CASE scm = "throws" ->
               [set EXCEPT !.escaped =
                   Append(@, Thrown("setCurrentMessage", msg))]
          [] hm = "throws" -> HandleCatch(handled, Thrown("handleMessage", msg))
          [] OTHER -> handled

\* HandlerRejects whose rejection is caught as a throw of the handler is
HandlerRejectsCaught(r, j) ==
    HandleCatch([r EXCEPT !.listener[j].result = "rejected"],
                Thrown("handleMessage", r.listener[j].msg))

\* the promise that call j of the listener log returned is rejected: the
\* callback returned it to the channel without awaiting it, so no code of
\* the queue runs on the rejection
HandlerRejects(r, j) == [r EXCEPT !.listener[j].result = "rejected"]

\* .then(() => resolve()) of channel().consume(...)
ConsumeThen(cs) == [cs EXCEPT !.state = "resolved"]

\* ConsumeCatch that logs the error and leaves the promise pending
ConsumeCatchLogOnly(cs) == cs

\* .catch(e => { debugError(CHANNEL_CONSUME_ERROR, e); reject(e) })
ConsumeCatch(cs) == [cs EXCEPT !.state = "rejected", !.error = TransportError]

\* BrokerChannel.close(), which Queue.close() calls: a queue that owns its
\* connection closes its channel and the connection, a queue that reuses
\* the channel of an exchange leaves that channel and its connection open
BrokerChannelClose(c) ==
    IF calls[c].ctor = "connectionSetting"
    THEN [channels EXCEPT ![ChannelOf(c)] =
             [ChannelDo(@, [ChannelCall("close") EXCEPT !.by = c])
                EXCEPT !.open = FALSE, !.connectionOpen = FALSE,
                       !.consumers = {}]]
    ELSE channels

RECURSIVE SumOf(_, _)
SumOf(f, S) ==
    IF S = {} THEN 0
    ELSE LET x == CHOOSE y \in S : TRUE IN f[x] + SumOf(f, S \ {x})

\* the calls made on the queues and the deliveries pushed so far
OpsDone ==
    SumOf([c \in DOMAIN cons |->
             Len(cons[c].consumes) + Len(cons[c].acks) + Len(cons[c].qos)
               + cons[c].closes], DOMAIN cons)
      + SumOf([h \in DOMAIN channels |-> Len(channels[h].pushed)],
              DOMAIN channels)

\* the application holds the queue: the recipe's promise is resolved
Ready(c) == calls[c].outcome = "resolved"

\* the messages the listener of the queue was given
Received(c) == {cons[c].listener[j].msg : j \in DOMAIN cons[c].listener}

\* the application calls one of two recipes with a proper name
CallReady(c) ==
    /\ calls[c].stage = "idle"
    /\ \A b \in DOMAIN calls : b < c => calls[b].stage # "idle"
    /\ \E recipe \in {"durableInstance", "exchangeTemporarySubscriberInstance"} :
       \E name \in IF HasNameParam(recipe) THEN {"orders"} ELSE {""} :
          calls' = [calls EXCEPT ![c] = Executor(recipe, name, <<>>, NoFlags)]
    /\ UNCHANGED <<queues, bindings, generated, consVars>>

\* queue.consume(messageListener, ack, options)
Consume(c) ==
    /\ Ready(c)
    /\ OpsDone < MaxOps
    /\ \E l \in Listeners, a \in AckCallbacks, o \in ConsumeOptions :
          LET k == Len(cons[c].consumes) + 1
          IN  /\ cons' = [cons EXCEPT ![c].consumes =
                    Append(@, [listener |-> l, ack |-> a, options |-> o,
                               state |-> "pending", error |-> <<>>])]
              /\ channels' = [channels EXCEPT ![ChannelOf(c)] =
                    ChannelDo(@, [ConsumeCall(calls[c].name, k, o)
                                    EXCEPT !.by = c])]
    /\ UNCHANGED <<calls, queues, bindings, generated>>

\* the channel registers the consumer
ConsumeOk(c, k) ==
    /\ k \in DOMAIN cons[c].consumes
    /\ cons[c].consumes[k].state = "pending"
    /\ channels[ChannelOf(c)].open
    /\ cons' = [cons EXCEPT ![c].consumes[k] = ConsumeThen(@)]
    /\ channels' = [channels EXCEPT ![ChannelOf(c)].consumers =
                       @ \cup {<<c, k>>}]
    /\ UNCHANGED <<calls, queues, bindings, generated>>

\* the channel fails to register the consumer
ConsumeFail(c, k) ==
    /\ k \in DOMAIN cons[c].consumes
    /\ cons[c].consumes[k].state = "pending"
    /\ cons' = [cons EXCEPT ![c].consumes[k] = ConsumeCatch(@)]
    /\ channels' = [channels EXCEPT ![ChannelOf(c)].failed = @ \cup {<<c, k>>}]
    /\ UNCHANGED <<calls, queues, bindings, generated>>

\* Deliver that acknowledges the delivery once the callback is done
DeliverAutoAck(c, k) ==
    LET h == ChannelOf(c)
        ch == channels[h]
        msg == Len(ch.pushed) + 1
    IN  /\ <<c, k>> \in ch.consumers
        /\ ch.open
        /\ OpsDone < MaxOps
        /\ ch.prefetch = 0 \/ Cardinality(ch.unacked) < ch.prefetch
        /\ channels' = [channels EXCEPT ![h] =
              ChannelDo([ch EXCEPT !.pushed = Append(@, <<c, k>>),
                                   !.unacked = @ \cup {msg}],
                        [AckCall(msg) EXCEPT !.by = c])]
        /\ \E scm \in Behaviours, hm \in HandlerBehaviours :
              cons' = [cons EXCEPT ![c] = OnMessage(@, k, msg, scm, hm)]
        /\ UNCHANGED <<calls, queues, bindings, generated>>

\* the channel pushes a delivery to the callback of a registered consumer,
\* unless the prefetch limit withholds it
Deliver(c, k) ==
    LET h == ChannelOf(c)
        ch == channels[h]
        msg == Len(ch.pushed) + 1
    IN  /\ <<c, k>> \in ch.consumers
        /\ ch.open
        /\ OpsDone < MaxOps
        /\ ch.prefetch = 0 \/ Cardinality(ch.unacked) < ch.prefetch
        /\ channels' = [channels EXCEPT ![h].pushed = Append(@, <<c, k>>),
                                        ![h].unacked = @ \cup {msg}]
        /\ \E scm \in Behaviours, hm \in HandlerBehaviours :
              cons' = [cons EXCEPT ![c] = OnMessage(@, k, msg, scm, hm)]
        /\ UNCHANGED <<calls, queues, bindings, generated>>

\* the promise a handleMessage call of the listener returned is rejected
LateFailure(c) ==
    /\ \E j \in DOMAIN cons[c].listener :
          /\ cons[c].listener[j].fn = "handleMessage"
          /\ cons[c].listener[j].result = "rejectsLater"
          /\ cons' = [cons EXCEPT ![c] = HandlerRejects(@, j)]
    /\ UNCHANGED <<calls, queues, bindings, generated, channels>>

\* queue.ack(message)
Ack(c) ==
    /\ Ready(c)
    /\ OpsDone < MaxOps
    /\ \E m \in Received(c) :
          /\ cons' = [cons EXCEPT ![c].acks =
                Append(@, [op |-> "ack", msg |-> m, requeue |-> FALSE])]
          /\ channels' = [channels EXCEPT ![ChannelOf(c)] =
                ChannelDo(@, [AckCall(m) EXCEPT !.by = c])]
    /\ UNCHANGED <<calls, queues, bindings, generated>>

\* queue.nack(message, reqeue)
Nack(c) ==
    /\ Ready(c)
    /\ OpsDone < MaxOps
    /\ \E m \in Received(c), requeue \in BOOLEAN :
          /\ cons' = [cons EXCEPT ![c].acks =
                Append(@, [op |-> "nack", msg |-> m, requeue |-> requeue])]
          /\ channels' = [channels EXCEPT ![ChannelOf(c)] =
                ChannelDo(@, [NackCall(m, requeue) EXCEPT !.by = c])]
    /\ UNCHANGED <<calls, queues, bindings, generated>>

\* BasicQos that keeps the count on the queue instance
BasicQosPerQueue(c) ==
    /\ Ready(c)
    /\ OpsDone < MaxOps
    /\ \E count \in QosArgs :
          cons' = [cons EXCEPT ![c].qos = Append(@, count)]
    /\ UNCHANGED <<calls, queues, bindings, generated, channels>>

\* queue.basicQos(count)
BasicQos(c) ==
    /\ Ready(c)
    /\ OpsDone < MaxOps
    /\ \E count \in QosArgs :
          /\ cons' = [cons EXCEPT ![c].qos = Append(@, count)]
          /\ channels' = [channels EXCEPT ![ChannelOf(c)] =
                ChannelDo(@, [PrefetchCall(count) EXCEPT !.by = c])]
    /\ UNCHANGED <<calls, queues, bindings, generated>>

\* queue.close()
Close(c) ==
    /\ Ready(c)
    /\ cons[c].closes = 0
    /\ OpsDone < MaxOps
    /\ cons' = [cons EXCEPT ![c].closes = 1]
    /\ channels' = BrokerChannelClose(c)
    /\ UNCHANGED <<calls, queues, bindings, generated>>

NextConsume ==
    \E c \in DOMAIN calls :
        \/ CallReady(c)
        \/ BuildOk(c)
        \/ BuildFail(c)
        \/ AssertOk(c)
        \/ AssertFail(c)
        \/ \E i \in 1 .. MaxKeys : BindOk(c, i)
        \/ \E i \in 1 .. MaxKeys : BindFail(c, i)
        \/ Consume(c)
        \/ \E k \in 1 .. MaxOps : ConsumeOk(c, k)
        \/ \E k \in 1 .. MaxOps : ConsumeFail(c, k)
        \/ \E k \in 1 .. MaxOps : Deliver(c, k)
        \/ LateFailure(c)
        \/ Ack(c)
        \/ Nack(c)
        \/ BasicQos(c)
        \/ Close(c)

\* a queue from its construction to its close
SpecConsume == Init /\ [][NextConsume]_vars

(* ----------------------- interleaved pipelines ------------------------- *)
\* two construction calls that run interleaved on one broker
Pipelines == {1, 2}

\* no construction call made yet, two to come
InitPair ==
    /\ calls = [c \in Pipelines |-> IdleCall]
    /\ queues = {}
    /\ bindings = {}
    /\ generated = 0
    /\ channels = [h \in {ExchangeChannel} \cup Pipelines |-> FreshChannel]
    /\ cons = [c \in Pipelines |-> NoConsumption]

\* two named recipes that declare the same name with different properties,
\* and the two recipes that let the broker name the queue
PairRecipes ==
    {"durableInstance", "durableExclusiveInstance",
     "exchangeTemporarySubscriberInstance",
     "exchangeTemporaryDirectOrTopicSubscriberInstance"}

\* the application calls one of these recipes, the named ones with one name
CallPair(c) ==
    /\ calls[c].stage = "idle"
    /\ \A b \in DOMAIN calls : b < c => calls[b].stage # "idle"
    /\ \E recipe \in PairRecipes :
       \E name \in IF HasNameParam(recipe) THEN {"orders"} ELSE {""} :
       \E keys \in IF HasKeysParam(recipe) THEN KeyArgs ELSE {<<>>} :
          calls' = [calls EXCEPT ![c] = Executor(recipe, name, keys, NoFlags)]
    /\ UNCHANGED <<queues, bindings, generated, consVars>>

NextPair ==
    \E c \in DOMAIN calls :
        \/ CallPair(c)
        \/ BuildOk(c)
        \/ BuildFail(c)
        \/ AssertOk(c)
        \/ AssertFail(c)
        \/ \E i \in 1 .. MaxKeys : BindOk(c, i)
        \/ \E i \in 1 .. MaxKeys : BindFail(c, i)

\* construction calls running interleaved on one broker
SpecPair == InitPair /\ [][NextPair]_vars

(* --------------------- queues on a shared channel ---------------------- *)
\* the application builds a queue on the channel of the exchange
CallShared(c) ==
    /\ calls[c].stage = "idle"
    /\ \A b \in DOMAIN calls : b < c => calls[b].stage # "idle"
    /\ calls' = [calls EXCEPT ![c] =
                    Executor("exchangeTemporarySubscriberInstance", "", <<>>,
                             NoFlags)]
    /\ UNCHANGED <<queues, bindings, generated, consVars>>

NextShared ==
    \E c \in DOMAIN calls :
        \/ CallShared(c)
        \/ BuildOk(c)
        \/ BuildFail(c)
        \/ AssertOk(c)
        \/ AssertFail(c)
        \/ \E i \in 1 .. MaxKeys : BindOk(c, i)
        \/ \E i \in 1 .. MaxKeys : BindFail(c, i)
        \/ Consume(c)
        \/ \E k \in 1 .. MaxOps : ConsumeOk(c, k)
        \/ \E k \in 1 .. MaxOps : ConsumeFail(c, k)
        \/ \E k \in 1 .. MaxOps : Deliver(c, k)
        \/ LateFailure(c)
        \/ Ack(c)
        \/ Nack(c)
        \/ BasicQos(c)
        \/ Close(c)

\* two queues built on the channel of one exchange, then consumed from
SpecShared == InitPair /\ [][NextShared]_vars

(* ------------------------- unchecked arguments ------------------------- *)
\* the connectionSetting or exchange argument of a recipe: an object or null
PeerArgs == {"given", Null}
\* a routingKeys argument that is no array: null, or undefined where the
\* parameter has no default value
NoArray == <<"<no array>">>
\* the error a throwing constructor throws
CtorError == <<"ctorError">>
\* the TypeError of a method call on null or undefined
TypeError == <<"TypeError">>

\* (connectionSetting, brokerChannel) of `new this(connectionSetting, null,
\* name)' and of `new this(null, exchange, name)'
CtorArgs(recipe, peer) ==
    IF recipe \in ConnectionRecipes THEN <<peer, Null>> ELSE <<Null, peer>>

\* Queue constructor: super(connectionSetting, name) if connectionSetting !=
\* null, else super(null, name, brokerChannel), whatever brokerChannel is
Constructor(connectionSetting, brokerChannel) ==
    CASE connectionSetting # Null -> "connectionSetting"
      [] brokerChannel # Null -> "brokerChannel"
      [] OTHER -> "none"

\* `new this(...)' throws: inside the try the catch rejects; in
\* customInstanceUsingConnectionSetting it is outside the try, the async
\* executor's own promise is rejected and the returned promise is left alone
NewThrows(p) ==
    IF p.recipe = "customInstanceUsingConnectionSetting"
    THEN [p EXCEPT !.stage = "done"]
    ELSE [Reject(p, <<"QUEUE_BUILD_THROWS_ERROR">> \o CtorError)
            EXCEPT !.stage = "done"]

\* the synchronous part of the executor, the arguments taken as they come
ExecutorWith(recipe, name, keys, flags, peer, ctor) ==
    LET p == [IdleCall EXCEPT !.recipe = recipe, !.argName = name,
                              !.argKeys = keys, !.argFlags = flags,
                              !.outcome = "pending"]
        args == CtorArgs(recipe, peer)
    IN  CASE ValidatesName(recipe) /\ NameMissing(name) ->
               Executor(recipe, name, keys, flags)
          [] ctor = "throws" -> NewThrows(p)
          [] OTHER -> [Executor(recipe, name, keys, flags)
                         EXCEPT !.ctor = Constructor(args[1], args[2])]

\* the then-callback of the assertion throws before any bindQueue is called:
\* routingKeys.map on no array, exchange.name() on no exchange
BindThrows(q) ==
    /\ q.recipe \in ExchangeRecipes
    /\ \/ HasKeysParam(q.recipe) /\ q.argKeys = NoArray
       \/ q.ctor = "none" /\ BindKeys(q.recipe, q.argKeys) # <<>>

\* the catch after the then-callback of the assertion
ThenCatch(q) ==
    [Reject(q, <<"FAILED_BINDING_QUEUE_AND_EXCHANGE">> \o TypeError)
       EXCEPT !.stage = "done"]

AssertionThenWith(q) == IF BindThrows(q) THEN ThenCatch(q) ELSE AssertionThen(q)

\* the application calls a recipe with any arguments
CallWith(c) ==
    /\ calls[c].stage = "idle"
    /\ \A b \in DOMAIN calls : b < c => calls[b].stage # "idle"
    /\ \E recipe \in Recipes, peer \in PeerArgs, ctor \in Behaviours :
       \E name \in IF HasNameParam(recipe) THEN NameArgs ELSE {""} :
       \E keys \in IF HasKeysParam(recipe) THEN KeyArgs \cup {NoArray}
                                           ELSE {<<>>} :
       \E flags \in IF HasFlagParams(recipe) THEN {<<TRUE, FALSE, FALSE>>}
                                             ELSE {NoFlags} :
          calls' = [calls EXCEPT ![c] =
                       ExecutorWith(recipe, name, keys, flags, peer, ctor)]
    /\ UNCHANGED <<queues, bindings, generated, consVars>>

\* the broker declares the queue and replies
AssertOkWith(c) ==
    LET q == calls[c]
        flags == AssertionFlags(q.recipe, q.argFlags)
        replyQueue == ReplyQueue(q.name, generated)
    IN  /\ q.assertRes = "pending"
        /\ NameMissing(q.name) => generated < Len(GeneratedNames)
        /\ Redeclarable(replyQueue, flags)
        /\ queues' = queues \cup {[name |-> replyQueue, flags |-> flags]}
        /\ generated' = IF NameMissing(q.name) THEN generated + 1 ELSE generated
        /\ calls' = [calls EXCEPT ![c] =
                        AssertionThenWith(SetName(q, replyQueue))]
        /\ UNCHANGED <<bindings, consVars>>

NextWith ==
    \E c \in DOMAIN calls :
        \/ CallWith(c)
        \/ BuildOk(c)
        \/ BuildFail(c)
        \/ AssertOkWith(c)
        \/ AssertFail(c)
        \/ \E i \in 1 .. MaxKeys : BindOk(c, i)
        \/ \E i \in 1 .. MaxKeys : BindFail(c, i)

\* every transport operation that was started succeeds or fails in the end
TransportSettles ==
    \A c \in Calls :
        /\ WF_vars(BuildOk(c) \/ BuildFail(c))
        /\ WF_vars(AssertOkWith(c) \/ AssertFail(c))
        /\ \A i \in 1 .. MaxKeys : WF_vars(BindOk(c, i) \/ BindFail(c, i))

\* construction calls with any arguments, on a transport that answers
SpecWith == Init /\ [][NextWith]_vars /\ TransportSettles

(* ------------------------------ claims --------------------------------- *)
\* the operations of one kind a call has issued, in the order of issue
OpsOf(q, kind) == SelectSeq(q.issued, LAMBDA o : o.op = kind)

FailedBind(q) == \E i \in DOMAIN q.binds : q.binds[i] = "failed"

\* the recipes the documentation gives a mandatory name
NameRequiredRecipes ==
    {"customInstanceUsingConnectionSetting", "customInstanceUsingExchange",
     "durableInstance", "durableExclusiveInstance",
     "durableNonExclusiveNotAutoDeletedInstance",
     "individualExchangeSubscriberInstance", "exchangeNamedSubscriberInstance"}

\* C1: a call of a recipe with a mandatory name that is given a null or an
\* empty name is rejected with the name-required error, and it issues no
\* build, assertQueue or bindQueue.
C1_NameRequired ==
    \A c \in DOMAIN calls :
        LET q == calls[c]
        IN  (q.recipe \in NameRequiredRecipes /\ NameMissing(q.argName))
            => /\ q.outcome = "rejected"
               /\ q.diag = <<"INDIVIDUAL_SUBSCRIBER_MUST_HAS_NAME">>
               /\ q.issued = <<>>

\* C2: the stages of a call run in the order validate, build, assert, bind,
\* ready: an assertQueue is issued only after build succeeded, a bindQueue
\* only after assertQueue succeeded, and the call is resolved only when every
\* bind it issued has succeeded.
C2_StageOrder ==
    \A c \in DOMAIN calls :
        LET q == calls[c]
        IN  /\ q.issued # <<>>
               => /\ q.issued[1].op = "build"
                  /\ ~(ValidatesName(q.recipe) /\ NameMissing(q.argName))
            /\ \A k \in DOMAIN q.issued :
                  /\ q.issued[k].op = "build" => k = 1
                  /\ q.issued[k].op = "assertQueue"
                     => k = 2 /\ q.buildRes = "ok"
                  /\ q.issued[k].op = "bindQueue"
                     => k > 2 /\ q.buildRes = "ok" /\ q.assertRes = "ok"
            /\ q.outcome = "resolved"
               => /\ q.buildRes = "ok" /\ q.assertRes = "ok"
                  /\ Len(q.binds) = Len(OpsOf(q, "bindQueue"))
                  /\ \A i \in DOMAIN q.binds : q.binds[i] = "ok"

C2_Witness ==
    \E c \in DOMAIN calls :
        /\ calls[c].outcome = "resolved"
        /\ Len(calls[c].binds) = 2
        /\ Len(calls[c].issued) = 4

AnonymousRecipes ==
    {"exchangeTemporarySubscriberInstance",
     "exchangeTemporaryDirectOrTopicSubscriberInstance"}

\* C3: a resolved queue of an anonymous-name recipe carries the name the
\* broker returned from assertQueue, the name the broker declared, and never
\* the empty name that was sent.
C3_AnonymousName ==
    \A c \in DOMAIN calls :
        LET q == calls[c]
        IN  (q.recipe \in AnonymousRecipes /\ q.outcome = "resolved")
            => /\ q.issued[2].op = "assertQueue" /\ q.issued[2].queue = ""
               /\ q.name = q.reply
               /\ q.name # ""
               /\ \E d \in queues : d.name = q.name

C3_Witness ==
    \E c \in DOMAIN calls :
        /\ calls[c].recipe \in AnonymousRecipes
        /\ calls[c].outcome = "resolved"
        /\ calls[c].name = "amq.gen-1"

\* the (durable, exclusive, autoDelete) column of the policy table
PolicyTable(recipe, chosen) ==
    CASE recipe \in {"durableInstance",
                     "durableNonExclusiveNotAutoDeletedInstance",
                     "individualExchangeSubscriberInstance",
                     "exchangeNamedSubscriberInstance"} -> <<TRUE, FALSE, FALSE>>
      [] recipe = "durableExclusiveInstance" -> <<TRUE, TRUE, FALSE>>
      [] recipe \in AnonymousRecipes -> <<FALSE, TRUE, TRUE>>
      [] recipe \in {"customInstanceUsingConnectionSetting",
                     "customInstanceUsingExchange"} -> chosen

\* C4: the (durable, exclusive, autoDelete) triple of the assertQueue a
\* recipe issues is the one of the policy table, the caller's triple for the
\* two custom recipes; a call whose build succeeded has issued one.
C4_PolicyTable ==
    \A c \in DOMAIN calls :
        LET q == calls[c]
            asserts == OpsOf(q, "assertQueue")
        IN  /\ \A k \in DOMAIN asserts :
                  asserts[k].flags = PolicyTable(q.recipe, q.argFlags)
            /\ q.buildRes = "ok" => Len(asserts) = 1

C4_Witness ==
    \E c \in DOMAIN calls :
        /\ calls[c].recipe = "durableExclusiveInstance"
        /\ calls[c].assertRes = "ok"
        /\ OpsOf(calls[c], "assertQueue")[1].flags = <<TRUE, TRUE, FALSE>>

CallerKeyRecipes ==
    {"customInstanceUsingExchange", "individualExchangeSubscriberInstance",
     "exchangeTemporaryDirectOrTopicSubscriberInstance"}

\* C5: after a successful assertion, a recipe bound to the caller's N routing
\* keys has issued exactly N bindQueue calls, the i-th with (the queue's name
\* after the assertion, the exchange's name, the i-th routing key).
C5_BindFanOut ==
    \A c \in DOMAIN calls :
        LET q == calls[c]
            bound == OpsOf(q, "bindQueue")
        IN  (q.recipe \in CallerKeyRecipes /\ q.assertRes = "ok")
            => /\ Len(bound) = Len(q.argKeys)
               /\ \A i \in DOMAIN bound :
                     /\ bound[i].queue = q.name
                     /\ bound[i].exchange = ExchangeName
                     /\ bound[i].key = q.argKeys[i]
               /\ \E d \in queues : d.name = q.name

C5_Witness ==
    \E c \in DOMAIN calls :
        /\ calls[c].recipe = "exchangeTemporaryDirectOrTopicSubscriberInstance"
        /\ calls[c].assertRes = "ok"
        /\ calls[c].argKeys = <<"rk", "">>
        /\ Len(OpsOf(calls[c], "bindQueue")) = 2

\* C6: when a bindQueue of a call has failed, the call is rejected and is
\* not resolved, whatever the other binds of the call did and will do.
C6_BindFailureRejects ==
    \A c \in DOMAIN calls :
        FailedBind(calls[c]) => calls[c].outcome = "rejected"

C6_Witness ==
    \E c \in DOMAIN calls :
        /\ calls[c].binds = <<"ok", "failed">>
        /\ calls[c].outcome = "rejected"

\* C7: exchangeTemporarySubscriberInstance and exchangeNamedSubscriberInstance
\* issue, once the assertion succeeded, exactly one bindQueue, with the empty
\* routing key; the four connection based recipes issue no bindQueue.
C7_FixedBinds ==
    \A c \in DOMAIN calls :
        LET q == calls[c]
            bound == OpsOf(q, "bindQueue")
        IN  /\ (/\ q.recipe \in {"exchangeTemporarySubscriberInstance",
                                 "exchangeNamedSubscriberInstance"}
                /\ q.assertRes = "ok")
               => /\ Len(bound) = 1
                  /\ bound[1].key = ""
                  /\ bound[1].queue = q.name
                  /\ bound[1].exchange = ExchangeName
            /\ q.recipe \in ConnectionRecipes
               => bound = <<>> /\ q.binds = <<>>

C7_Witness ==
    \E c \in DOMAIN calls :
        /\ calls[c].recipe = "exchangeNamedSubscriberInstance"
        /\ calls[c].argName = "orders"
        /\ calls[c].outcome = "resolved"
        /\ <<"orders", ExchangeName, "">> \in bindings

\* C8: when build() fails the call is rejected with the build diagnostic, no
\* later stage runs and the caller does not receive the queue.
C8_BuildFailure ==
    \A c \in DOMAIN calls :
        LET q == calls[c]
        IN  q.buildRes = "failed"
            => /\ q.outcome = "rejected"
               /\ q.diag = <<"QUEUE_BUILD_THROWS_ERROR">> \o TransportError
               /\ q.issued = <<BuildOp>>

C8_Witness ==
    \E c \in DOMAIN calls :
        /\ calls[c].buildRes = "failed"
        /\ calls[c].outcome = "rejected"
        /\ calls[c].recipe = "exchangeNamedSubscriberInstance"

\* C9: when the broker refuses the assertQueue the call is rejected with a
\* diagnostic that names the assertion stage, and not the binding stage, as
\* the failing stage.
C9_AssertionDiagnostic ==
    \A c \in DOMAIN calls :
        LET q == calls[c]
        IN  q.assertRes = "failed"
            => /\ q.outcome = "rejected"
               /\ q.diag[1] = "FAILED_ASSERT_QUEUE"
               /\ \A k \in DOMAIN q.diag :
                     q.diag[k] # "FAILED_BINDING_QUEUE_AND_EXCHANGE"

\* C10: after a bind failure the call has issued nothing but its build, its
\* assertQueue and its bindQueue calls (no unbind, delete or close), the
\* queue and the bindings that succeeded are on the broker, and the binds
\* still pending can complete.
C10_NoCompensation ==
    \A c \in DOMAIN calls :
        LET q == calls[c]
        IN  FailedBind(q)
            => /\ Len(q.issued) = 2 + Len(q.binds)
               /\ \A k \in DOMAIN q.issued :
                     q.issued[k].op \in {"build", "assertQueue", "bindQueue"}
               /\ \E d \in queues : d.name = q.name
               /\ \A i \in DOMAIN q.binds :
                     /\ q.binds[i] = "ok"
                        => <<q.name, ExchangeName, BindOpOf(q, i).key>> \in bindings
                     /\ q.binds[i] = "pending"
                        => ENABLED BindOk(c, i) /\ ENABLED BindFail(c, i)

C10_Witness ==
    \E c \in DOMAIN calls :
        /\ calls[c].binds = <<"failed", "ok">>
        /\ calls[c].argKeys = <<"", "rk">>
        /\ <<calls[c].name, ExchangeName, "rk">> \in bindings

(* ---------------- claims on consumption and acknowledgment ------------- *)
\* the messages the channel h pushed to the callback of consume call k of c
PushedTo(h, c, k) ==
    {m \in DOMAIN channels[h].pushed : channels[h].pushed[m] = <<c, k>>}

\* the positions of the listener log of c where a method got the message m
CallsOn(c, fn, m) ==
    {j \in DOMAIN cons[c].listener :
        cons[c].listener[j].fn = fn /\ cons[c].listener[j].msg = m}

SetThrew(c, m) ==
    \E j \in CallsOn(c, "setCurrentMessage", m) :
        cons[c].listener[j].result = "throws"

HandleThrew(c, m) ==
    \E j \in CallsOn(c, "handleMessage", m) :
        cons[c].listener[j].result = "throws"

\* the positions of the events of c that carry the error e
EventsOf(c, e) ==
    {i \in DOMAIN cons[c].events :
        cons[c].events[i] =
            [name |-> "MESSAGE_CONSUMER_ERROR_EVENT_NAME", error |-> e]}

\* C11: for every delivery pushed to a consumer of a queue the listener given
\* to consume gets setCurrentMessage(msg) once, and, setCurrentMessage having
\* returned, handleMessage(msg, ack) right after it, with the same message
\* and the ack callback given to consume; the listener gets no other call.
C11_ListenerCalls ==
    \A c \in DOMAIN cons :
        LET log == cons[c].listener
            h == ChannelOf(c)
        IN  /\ \A k \in DOMAIN cons[c].consumes :
               \A m \in PushedTo(h, c, k) :
                  LET cs == cons[c].consumes[k]
                  IN  /\ Cardinality(CallsOn(c, "setCurrentMessage", m)) = 1
                      /\ \A j \in CallsOn(c, "setCurrentMessage", m) :
                            /\ log[j].listener = cs.listener
                            /\ ~SetThrew(c, m)
                               => /\ j + 1 \in DOMAIN log
                                  /\ log[j + 1].fn = "handleMessage"
                                  /\ log[j + 1].listener = cs.listener
                                  /\ log[j + 1].msg = m
                                  /\ log[j + 1].ack = cs.ack
            /\ \A j \in DOMAIN log :
                  /\ \E k \in DOMAIN cons[c].consumes :
                        log[j].msg \in PushedTo(h, c, k)
                  /\ log[j].fn = "handleMessage"
                     => /\ j > 1
                        /\ log[j - 1].fn = "setCurrentMessage"
                        /\ log[j - 1].msg = log[j].msg

C11_Witness ==
    \E c \in DOMAIN cons :
        /\ Len(cons[c].listener) = 4
        /\ cons[c].listener[3].fn = "setCurrentMessage"
        /\ cons[c].listener[4].fn = "handleMessage"
        /\ cons[c].listener[4].msg = 2
        /\ cons[c].listener[4].ack = "ackCallback"

C13_OneEventPerThrow ==
    \A c \in DOMAIN cons :
        /\ \A j \in DOMAIN cons[c].listener :
              LET call == cons[c].listener[j]
              IN  call.fn = "handleMessage"
                  => Cardinality(EventsOf(c, Thrown("handleMessage", call.msg)))
                        = IF call.result = "throws" THEN 1 ELSE 0
        /\ \A i \in DOMAIN cons[c].events :
              \E j \in DOMAIN cons[c].listener :
                  /\ cons[c].listener[j].fn = "handleMessage"
                  /\ i \in EventsOf(c, Thrown("handleMessage",
                                              cons[c].listener[j].msg))

C13_Witness ==
    \E c \in DOMAIN cons :
        /\ HandleThrew(c, 1)
        /\ 2 \in Received(c) /\ ~HandleThrew(c, 2) /\ ~SetThrew(c, 2)
        /\ Len(cons[c].events) = 1

\* C14: a throwing handleMessage does not end the consumption: its error
\* does not leave the callback, the consumer stays registered while the
\* channel is open, the channel can push the next delivery, and every later
\* delivery is passed to setCurrentMessage and, setCurrentMessage having
\* returned, to handleMessage.
C14_LoopSurvivesThrow ==
    \A c \in DOMAIN cons :
        \A k \in DOMAIN cons[c].consumes :
            LET h == ChannelOf(c)
                ch == channels[h]
            IN  \A m \in PushedTo(h, c, k) :
                    HandleThrew(c, m)
                    => /\ \A j \in DOMAIN cons[c].escaped :
                             cons[c].escaped[j] # Thrown("handleMessage", m)
                       /\ ch.open => <<c, k>> \in ch.consumers
                       /\ ( /\ ch.open
                            /\ OpsDone < MaxOps
                            /\ ch.prefetch = 0
                               \/ Cardinality(ch.unacked) < ch.prefetch )
                          => ENABLED Deliver(c, k)
                       /\ \A n \in PushedTo(h, c, k) :
                             n > m
                             => /\ CallsOn(c, "setCurrentMessage", n) # {}
                                /\ ~SetThrew(c, n)
                                   => CallsOn(c, "handleMessage", n) # {}

C14_Witness ==
    \E c \in DOMAIN cons :
        /\ HandleThrew(c, 1)
        /\ CallsOn(c, "handleMessage", 2) # {}
        /\ CallsOn(c, "handleMessage", 3) # {}

\* the ack and nack calls the queue c made on its channel, in order
AckCallsBy(c) ==
    SelectSeq(channels[ChannelOf(c)].ackCalls, LAMBDA o : o.by = c)

\* the application acknowledged or rejected the delivery m of the channel h
Settled(h, m) ==
    \E c \in DOMAIN cons :
        /\ ChannelOf(c) = h
        /\ \E i \in DOMAIN cons[c].acks : cons[c].acks[i].msg = m

\* C15: the queue acknowledges nothing on its own: the ack and nack calls on
\* the channel are, one for one and in order, the ack and nack calls of the
\* application on the queue, and a delivery the application has not
\* acknowledged or rejected, one whose handler threw included, stays
\* outstanding.
C15_ManualAckOnly ==
    /\ \A c \in DOMAIN cons :
          /\ Len(AckCallsBy(c)) = Len(cons[c].acks)
          /\ \A i \in DOMAIN cons[c].acks :
                /\ AckCallsBy(c)[i].op = cons[c].acks[i].op
                /\ AckCallsBy(c)[i].msg = cons[c].acks[i].msg
    /\ \A h \in DOMAIN channels :
          \A m \in DOMAIN channels[h].pushed :
              ~Settled(h, m) => m \in channels[h].unacked

C15_Witness ==
    \E c \in DOMAIN cons :
        /\ HandleThrew(c, 1)
        /\ 1 \in channels[ChannelOf(c)].unacked
        /\ 2 \in Received(c)
        /\ Settled(ChannelOf(c), 2)
        /\ 2 \notin channels[ChannelOf(c)].unacked

\* the application call that the step appends to the ack/nack calls of c
NewAck(c) == cons'[c].acks[Len(cons'[c].acks)]

\* the step is a call of the method op of the queue c
AckStep(c, op) ==
    /\ Len(cons'[c].acks) = Len(cons[c].acks) + 1
    /\ NewAck(c).op = op

\* the channel calls the step appends to the ack/nack log of the channel h
NewAckCalls(h) ==
    SubSeq(channels'[h].ackCalls, Len(channels[h].ackCalls) + 1,
           Len(channels'[h].ackCalls))

\* C16: ack(message) issues exactly one ack on the channel, for that delivery,
\* not as a multiple acknowledgment, and settles no other outstanding delivery.
C16_AckExactlyThat ==
    [][\A c \in DOMAIN cons :
          AckStep(c, "ack")
          => LET h == ChannelOf(c)
             IN  /\ Len(NewAckCalls(h)) = 1
                 /\ NewAckCalls(h)[1].op = "ack"
                 /\ NewAckCalls(h)[1].msg = NewAck(c).msg
                 /\ ~Multiple(NewAckCalls(h)[1].allUpTo)
                 /\ channels[h].unacked \ {NewAck(c).msg}
                       \subseteq channels'[h].unacked]_vars

C16_Witness ==
    \E c \in DOMAIN cons :
        /\ cons[c].acks = <<[op |-> "ack", msg |-> 2, requeue |-> FALSE]>>
        /\ channels[ChannelOf(c)].unacked = {1}
        /\ Len(channels[ChannelOf(c)].pushed) = 2

\* C17: nack(message, requeue) issues exactly one nack on the channel, for
\* that delivery, not as a multiple rejection, with the requeue flag of the
\* call, and settles no other outstanding delivery.
C17_NackExactlyThat ==
    [][\A c \in DOMAIN cons :
          AckStep(c, "nack")
          => LET h == ChannelOf(c)
             IN  /\ Len(NewAckCalls(h)) = 1
                 /\ NewAckCalls(h)[1].op = "nack"
                 /\ NewAckCalls(h)[1].msg = NewAck(c).msg
                 /\ NewAckCalls(h)[1].allUpTo = "false"
                 /\ ~Multiple(NewAckCalls(h)[1].allUpTo)
                 /\ NewAckCalls(h)[1].requeue = NewAck(c).requeue
                 /\ channels[h].unacked \ {NewAck(c).msg}
                       \subseteq channels'[h].unacked]_vars

C17_Witness ==
    \E c \in DOMAIN cons :
        /\ cons[c].acks = <<[op |-> "nack", msg |-> 1, requeue |-> FALSE]>>
        /\ AckCallsBy(c)[1].requeue = FALSE
        /\ Len(channels[ChannelOf(c)].pushed) = 2
        /\ channels[ChannelOf(c)].unacked = {2}

\* the consume calls the queue c made on its channel, in order
ConsumeCallsBy(c) ==
    SelectSeq(channels[ChannelOf(c)].consumeCalls, LAMBDA o : o.by = c)

\* C18: a consume whose registration the channel fails is rejected with the
\* error of the failure and is not issued again: each call of consume makes
\* exactly one consume call on the channel, on the name the broker returned
\* for the queue, with its own callback and options.
C18_RegistrationFailure ==
    \A c \in DOMAIN cons :
        LET h == ChannelOf(c)
        IN  /\ Len(ConsumeCallsBy(c)) = Len(cons[c].consumes)
            /\ \A k \in DOMAIN cons[c].consumes :
                  LET cs == cons[c].consumes[k]
                  IN  /\ ConsumeCallsBy(c)[k].queue = calls[c].reply
                      /\ ConsumeCallsBy(c)[k].callback = k
                      /\ ConsumeCallsBy(c)[k].options = cs.options
                      /\ <<c, k>> \in channels[h].failed
                         => /\ cs.state = "rejected"
                            /\ cs.error = TransportError
                            /\ <<c, k>> \notin channels[h].consumers
                      /\ cs.state = "rejected" => <<c, k>> \in channels[h].failed

C18_Witness ==
    \E c \in DOMAIN cons :
        /\ Len(cons[c].consumes) = 1
        /\ cons[c].consumes[1].state = "rejected"
        /\ Len(ConsumeCallsBy(c)) = 1
        /\ ConsumeCallsBy(c)[1].queue = "amq.gen-1"

\* the step is a call of basicQos of the queue c
QosStep(c) == Len(cons'[c].qos) = Len(cons[c].qos) + 1

\* the count the step passes to basicQos of the queue c
NewQos(c) == cons'[c].qos[Len(cons'[c].qos)]

\* C19: the prefetch limit of a channel changes only in a step that is a
\* basicQos call of a queue on that channel, a basicQos(count) on an open
\* channel makes one prefetch call and leaves the limit at count, and no
\* construction, consume, delivery, ack, nack or close step changes it.
C19_PrefetchOnlyByQos ==
    [][/\ \A h \in DOMAIN channels :
             channels'[h].prefetch # channels[h].prefetch
             => \E c \in DOMAIN cons :
                   /\ ChannelOf(c) = h
                   /\ QosStep(c)
                   /\ channels'[h].prefetch = NewQos(c)
       /\ \A c \in DOMAIN cons :
             LET h == ChannelOf(c)
             IN  /\ QosStep(c)
                    => /\ Len(channels'[h].prefetchCalls)
                             = Len(channels[h].prefetchCalls) + 1
                       /\ channels[h].open
                          => channels'[h].prefetch = NewQos(c)
                 /\ ~(\E b \in DOMAIN cons : ChannelOf(b) = h /\ QosStep(b))
                    => channels'[h].prefetchCalls = channels[h].prefetchCalls]_vars

C19_Witness ==
    \E c \in DOMAIN cons :
        /\ cons[c].qos = <<1, 2>>
        /\ channels[ChannelOf(c)].prefetch = 2
        /\ Len(cons[c].consumes) = 1
        /\ Len(channels[ChannelOf(c)].pushed) = 1

\* the step is a call of close of the queue c
CloseStep(c) == cons'[c].closes = cons[c].closes + 1

ActiveConsumers(c) ==
    {k \in DOMAIN cons[c].consumes :
        <<c, k>> \in channels[ChannelOf(c)].consumers}

\* C21: at any time a queue has at most one active consumer registered on
\* its channel, whatever consume calls were made on it.
C21_OneConsumer ==
    \A c \in DOMAIN cons : Cardinality(ActiveConsumers(c)) <= 1

\* the calls c and d run the same named recipe with the same name and flags
SameRun(c, d) ==
    /\ c # d
    /\ calls[c].recipe = calls[d].recipe
    /\ calls[c].recipe \in Recipes
    /\ HasNameParam(calls[c].recipe)
    /\ calls[c].argName = calls[d].argName
    /\ ~NameMissing(calls[c].argName)
    /\ calls[c].argFlags = calls[d].argFlags

C23_EmptyNameGenerated ==
    \A c \in DOMAIN calls :
        LET q == calls[c]
        IN  q.recipe = "customInstanceUsingExchange"
            => /\ (~NameMissing(q.argName) /\ q.outcome = "resolved")
                  => q.name = q.argName
               /\ q.argName = ""
                  => /\ q.diag # <<"INDIVIDUAL_SUBSCRIBER_MUST_HAS_NAME">>
                     /\ q.issued # <<>>
                     /\ q.outcome = "resolved"
                        => \E n \in DOMAIN GeneratedNames :
                              q.name = GeneratedNames[n]

\* the calls whose build() opened a connection of their own
OwnedConnections ==
    {c \in DOMAIN calls :
        calls[c].ctor = "connectionSetting" /\ calls[c].buildRes = "ok"}

\* C24: a queue of an exchange based recipe is constructed on the exchange
\* as its peer: its build() opens no connection, and the handle its
\* assertQueue and bindQueue calls go to is the channel of the exchange.
C24_ExchangeChannelReused ==
    \A c \in DOMAIN calls :
        (calls[c].recipe \in ExchangeRecipes /\ calls[c].issued # <<>>)
        => /\ calls[c].ctor = "brokerChannel"
           /\ ChannelOf(c) = ExchangeChannel
           /\ c \notin OwnedConnections
           /\ channels[c] = FreshChannel

C24_Witness ==
    \E c \in DOMAIN calls :
        /\ calls[c].recipe = "customInstanceUsingExchange"
        /\ calls[c].outcome = "resolved"
        /\ Len(OpsOf(calls[c], "assertQueue")) = 1
        /\ Len(OpsOf(calls[c], "bindQueue")) = 2
        /\ ChannelOf(c) = ExchangeChannel

C30_CallSettles ==
    \A c \in Calls :
        (calls[c].outcome = "pending")
            ~> (calls[c].outcome \in {"resolved", "rejected"})

\* a stage of the call failed: the validation, build, assertQueue or a bind
StageFailed(q) ==
    \/ ValidatesName(q.recipe) /\ NameMissing(q.argName)
    \/ q.buildRes = "failed"
    \/ q.assertRes = "failed"
    \/ FailedBind(q)

\* the queue of the call is declared and has every binding the recipe makes
FullyBound(q) ==
    /\ q.buildRes = "ok"
    /\ q.assertRes = "ok"
    /\ q.name = q.reply
    /\ \E d \in queues : d.name = q.name
    /\ Len(q.binds) = Len(BindKeys(q.recipe, q.argKeys))
    /\ \A i \in DOMAIN q.binds :
          /\ q.binds[i] = "ok"
          /\ <<q.name, ExchangeName, BindKeys(q.recipe, q.argKeys)[i]>>
                \in bindings

\* C26: a construction call has one outcome at most: it is resolved only
\* with a declared queue that has all its bindings and no failed stage, it is
\* rejected, with a diagnostic, exactly when a stage failed, whatever the
\* number and the order of the failing binds.
C26_SingleOutcome ==
    \A c \in DOMAIN calls :
        LET q == calls[c]
        IN  /\ q.outcome \in {"none", "pending", "resolved", "rejected"}
            /\ q.outcome = "resolved" => FullyBound(q) /\ ~StageFailed(q)
            /\ q.outcome = "rejected" => StageFailed(q) /\ q.diag # <<>>
            /\ StageFailed(q) => q.outcome = "rejected"
            /\ q.outcome = "pending" => q.diag = <<>>

C26_Witness ==
    \E c \in DOMAIN calls :
        /\ calls[c].recipe = "exchangeTemporaryDirectOrTopicSubscriberInstance"
        /\ calls[c].binds = <<"failed", "failed">>
        /\ calls[c].outcome = "rejected"
        /\ calls[c].stage = "done"

\* C27: no stage is tried again: a call issues one build at most, one
\* assertQueue at most, and that only after the build succeeded, and one
\* bindQueue for each routing key of the recipe, in their order, and that
\* only after the assertion succeeded, whether the operations succeed or fail.
C27_NoRetry ==
    \A c \in DOMAIN calls :
        LET q == calls[c]
            keys == BindKeys(q.recipe, q.argKeys)
            bound == OpsOf(q, "bindQueue")
        IN  /\ Len(OpsOf(q, "build")) = IF q.buildRes = "none" THEN 0 ELSE 1
            /\ Len(OpsOf(q, "assertQueue"))
                  = IF q.assertRes = "none" THEN 0 ELSE 1
            /\ q.assertRes # "none" => q.buildRes = "ok"
            /\ Len(bound) = IF q.assertRes = "ok" THEN Len(keys) ELSE 0
            /\ \A i \in DOMAIN bound : bound[i].key = keys[i]
            /\ Len(q.issued) <= 2 + Len(keys)

C27_Witness ==
    \E c \in DOMAIN calls :
        /\ calls[c].recipe = "durableInstance"
        /\ calls[c].assertRes = "failed"
        /\ calls[c].outcome = "rejected"
        /\ calls[c].issued =
              <<BuildOp, AssertQueueOp("orders", <<TRUE, FALSE, FALSE>>)>>

\* every operation the call started has succeeded
AllSucceeded(q) ==
    /\ q.buildRes = "ok"
    /\ q.assertRes = "ok"
    /\ \A i \in DOMAIN q.binds : q.binds[i] = "ok"

\* C28: construction calls that run interleaved, two anonymous queues on the
\* channel of one exchange included, are independent: each queue has the
\* name its own assertQueue returned, two anonymous queues have different
\* names, every bind of a call carries the name of its own queue, and the
\* outcome of a call follows from its own operations alone: it is rejected
\* only when one of them failed and resolved when all of them succeeded,
\* whatever happened to the other call.
C28_IndependentPipelines ==
    \A c \in DOMAIN calls :
        LET q == calls[c]
        IN  /\ q.assertRes = "ok" => q.name = q.reply
            /\ \A k \in DOMAIN q.issued :
                  q.issued[k].op = "bindQueue"
                  => /\ q.issued[k].queue = q.reply
                     /\ \A d \in DOMAIN calls \ {c} :
                           (calls[d].assertRes = "ok"
                              /\ calls[d].recipe \in AnonymousRecipes)
                           => q.issued[k].queue # calls[d].name
            /\ \A d \in DOMAIN calls \ {c} :
                  (/\ q.recipe \in AnonymousRecipes
                   /\ calls[d].recipe \in AnonymousRecipes
                   /\ q.assertRes = "ok"
                   /\ calls[d].assertRes = "ok")
                  => q.name # calls[d].name
            /\ q.outcome = "rejected" <=> StageFailed(q)
            /\ AllSucceeded(q) => q.outcome = "resolved"

C28_Witness ==
    /\ calls[1].recipe = "exchangeTemporaryDirectOrTopicSubscriberInstance"
    /\ calls[2].recipe = "exchangeTemporaryDirectOrTopicSubscriberInstance"
    /\ calls[1].name = "amq.gen-2"
    /\ calls[2].name = "amq.gen-1"
    /\ calls[1].binds = <<"ok", "failed">>
    /\ calls[1].outcome = "rejected"
    /\ calls[2].binds = <<"ok", "ok">>
    /\ calls[2].outcome = "resolved"

\* the consume, ack, nack and prefetch calls the queue c made on the channel
CallsBy(ch, c) ==
    SelectSeq(ch.consumeCalls \o ch.ackCalls \o ch.prefetchCalls,
              LAMBDA o : o.by = c)

\* C29: closed is terminal: once close() was called on a queue, no call of
\* consume, ack, nack or basicQos on it issues an operation on the channel
\* handle, and no delivery is passed to its listener any more.
C29_ClosedTerminal ==
    [][\A c \in DOMAIN cons :
          cons[c].closes > 0
          => /\ cons'[c].listener = cons[c].listener
             /\ CallsBy(channels'[ChannelOf(c)], c)
                   = CallsBy(channels[ChannelOf(c)], c)]_vars

(* ------------------ claims on shared channels and handlers ------------- *)
\* the queue was built by a recipe that reuses the channel of an exchange
OnExchange(c) == Ready(c) /\ calls[c].recipe \in ExchangeRecipes

\* the prefetch calls the queue c made on the channel h
QosCallsBy(h, c) ==
    SelectSeq(channels[h].prefetchCalls, LAMBDA o : o.by = c)

\* C31: two queues built on the channel of one exchange work on one channel
\* handle; every basicQos(count) of either of them is a prefetch call on
\* that handle, whose limit is the count of the last such call of either
\* queue; and once the limit is reached the channel withholds the
\* deliveries of every consumer on it, those of the other queue included,
\* although that queue never called basicQos.
C31_SharedPrefetch ==
    \A c, d \in DOMAIN cons :
        (c # d /\ OnExchange(c) /\ OnExchange(d))
        => LET h == ChannelOf(c)
               ch == channels[h]
           IN  /\ ChannelOf(d) = h
               /\ Len(QosCallsBy(h, c)) = Len(cons[c].qos)
               /\ \A j \in DOMAIN cons[c].qos :
                     QosCallsBy(h, c)[j].count = cons[c].qos[j]
               /\ Len(ch.prefetchCalls) = Len(cons[c].qos) + Len(cons[d].qos)
               /\ ch.prefetchCalls # <<>>
                  => ch.prefetch = ch.prefetchCalls[Len(ch.prefetchCalls)].count
               /\ (ch.prefetch > 0 /\ Cardinality(ch.unacked) >= ch.prefetch)
                  => \A k \in 1 .. MaxOps : ~ENABLED Deliver(d, k)

\* one queue set the limit to 1, the other, which never called basicQos,
\* got one delivery that is unacknowledged and gets no further one
C31_Witness ==
    \E c, d \in DOMAIN cons :
        /\ c # d
        /\ OnExchange(c)
        /\ OnExchange(d)
        /\ cons[c].qos = <<1>>
        /\ cons[c].consumes = <<>>
        /\ cons[d].qos = <<>>
        /\ <<d, 1>> \in channels[ChannelOf(d)].consumers
        /\ channels[ChannelOf(d)].pushed = <<<<d, 1>>>>
        /\ channels[ChannelOf(d)].unacked = {1}
        /\ OpsDone < MaxOps
        /\ ~ENABLED Deliver(d, 1)

\* the handleMessage calls of the listener log of c whose returned promise
\* is, or is going to be, rejected
FailingLater(c) ==
    {j \in DOMAIN cons[c].listener :
        /\ cons[c].listener[j].fn = "handleMessage"
        /\ cons[c].listener[j].result \in {"rejectsLater", "rejected"}}

\* C32: only a synchronous throw of handleMessage becomes a
\* MESSAGE_CONSUMER_ERROR event: every event of a queue carries the error of
\* a handleMessage call that threw, and a handleMessage call that returned
\* and fails later has no event and no escaped error, before and after its
\* failure; its delivery is complete by then, the callback having returned
\* to the channel, which can push the next delivery before the failure.
C32_OnlySyncThrowEmits ==
    \A c \in DOMAIN cons :
        /\ \A i \in DOMAIN cons[c].events :
              \E j \in DOMAIN cons[c].listener :
                  /\ cons[c].listener[j].fn = "handleMessage"
                  /\ cons[c].listener[j].result = "throws"
                  /\ cons[c].events[i].error
                        = Thrown("handleMessage", cons[c].listener[j].msg)
        /\ \A j \in FailingLater(c) :
              LET m == cons[c].listener[j].msg
                  h == ChannelOf(c)
                  ch == channels[h]
              IN  /\ EventsOf(c, Thrown("handleMessage", m)) = {}
                  /\ \A i \in DOMAIN cons[c].escaped :
                        cons[c].escaped[i].msg # m
                  /\ m \in DOMAIN ch.pushed
                  /\ \A k \in DOMAIN cons[c].consumes :
                        ( /\ cons[c].listener[j].result = "rejectsLater"
                          /\ <<c, k>> \in ch.consumers
                          /\ ch.open
                          /\ OpsDone < MaxOps
                          /\ ch.prefetch = 0
                             \/ Cardinality(ch.unacked) < ch.prefetch )
                        => ENABLED Deliver(c, k)

\* one handler threw and got its event, a second returned a promise that
\* was rejected and got none, a third returned
C32_Witness ==
    \E c \in DOMAIN cons :
        /\ Len(cons[c].listener) = 6
        /\ cons[c].listener[2].result = "throws"
        /\ cons[c].listener[4].result = "rejected"
        /\ cons[c].listener[6].result = "returns"
        /\ Len(cons[c].events) = 1
        /\ cons[c].escaped = <<>>

====
